---- MODULE Spec2Model ----
(***************************************************************************)
(* Model of scripts/apply_settings.py (the Setting Application Engine) and *)
(* scripts/stability_check.py (the Schema Drift Detector).                 *)
(*                                                                         *)
(* Python strings are sequences of one-character strings, Python values    *)
(* are tagged records, dicts with insertion order are sequences of         *)
(* key/value records.  The browser is the environment: its element counts  *)
(* and control values are state, and a call that can time out can throw.   *)
(***************************************************************************)
EXTENDS Integers, Sequences, FiniteSets, TLC

VARIABLES
    schema,            \* the schema document: [containers, settings]
    values,            \* the desired-values map, in insertion order
    ui,                \* the live UI: per setting control state, per container modal surface
    pc,                \* position of main()
    groups,            \* settings_by_container, in insertion order
    gi,                \* index of the container group being processed
    si,                \* index of the setting being processed in the group
    scope,             \* root returned by open_container
    changed_count,     \* main's changed_count for the current container
    outcomes,          \* main's outcomes list
    saved_containers,  \* main's saved_containers list
    log,               \* UI actions performed in this run, in order
    faults,            \* transient automation failures injected so far
    report,            \* the report written by this run
    exitCode,          \* process exit status of this run
    run,               \* 1 for the first run, 2 for the second
    prev,              \* the report of the previous run
    rin,               \* resolver check: the setting handed to resolve_field_locator
    rout,              \* resolver check: its result
    snapA,             \* drift detector: first snapshot
    snapB,             \* drift detector: second snapshot
    diff               \* drift detector: result of compare_schemas and has_drift

vars == <<schema, values, ui, pc, groups, gi, si, scope, changed_count, outcomes,
          saved_containers, log, faults, report, exitCode, run, prev,
          rin, rout, snapA, snapB, diff>>

applyVars == <<schema, values, ui, pc, groups, gi, si, scope, changed_count, outcomes,
               saved_containers, log, faults, report, exitCode, run, prev>>
pureVars == <<rin, rout, snapA, snapB, diff>>

\* ------------------------------------------------------------------ bounds

\* transient automation failures (timeouts) injected per pair of runs
MaxFaults == 1
\* longest fallback list handed to the resolver check
MaxFallbacks == 2
\* most elements a selector matches
MaxMatches == 2
\* most settings in a schema snapshot handed to the drift detector
MaxSettings == 2
\* most options of a setting handed to the option-label check
MaxOptions == 2

\* ----------------------------------------------------------------- helpers

Range(s) == {s[i] : i \in 1..Len(s)}

\* ------------------------------------------------------------------ strings

EmptyStr == <<>>

IsSpace(c) == c = " "

RECURSIVE LStrip(_)
LStrip(s) == IF s # <<>> /\ IsSpace(Head(s)) THEN LStrip(Tail(s)) ELSE s

RECURSIVE RStrip(_)
RStrip(s) == IF s # <<>> /\ IsSpace(s[Len(s)]) THEN RStrip(SubSeq(s, 1, Len(s) - 1)) ELSE s

\* str.strip()
Strip(s) == RStrip(LStrip(s))

LowerChar(c) ==
    CASE c = "A" -> "a" [] c = "B" -> "b" [] c = "D" -> "d" [] c = "E" -> "e"
      [] c = "F" -> "f" [] c = "M" -> "m" [] c = "N" -> "n" [] c = "O" -> "o"
      [] c = "P" -> "p" [] c = "T" -> "t" [] c = "U" -> "u" [] c = "Z" -> "z"
      [] OTHER -> c

\* str.lower()
Lower(s) == [i \in 1..Len(s) |-> LowerChar(s[i])]

\* needle in hay
Contains(hay, needle) ==
    \E i \in 0..(Len(hay) - Len(needle)) : SubSeq(hay, i + 1, i + Len(needle)) = needle

\* ------------------------------------------------------------ Python values

PyNone == [t |-> "none", b |-> FALSE, s |-> <<>>]
PyBool(b) == [t |-> "bool", b |-> b, s |-> <<>>]
PyStr(s) == [t |-> "str", b |-> FALSE, s |-> s]

\* str(value)
PyToStr(v) ==
    CASE v.t = "str" -> v.s
      [] v.t = "bool" -> IF v.b THEN <<"T", "r", "u", "e">> ELSE <<"F", "a", "l", "s", "e">>
      [] OTHER -> <<"N", "o", "n", "e">>

\* bool(value)
PyTruthy(v) ==
    CASE v.t = "str" -> v.s # <<>>
      [] v.t = "bool" -> v.b
      [] OTHER -> FALSE

TrueWords == {<<"t", "r", "u", "e">>, <<"1">>, <<"y", "e", "s">>, <<"o", "n">>}
FalseWords == {<<"f", "a", "l", "s", "e">>, <<"0">>, <<"n", "o">>, <<"o", "f", "f">>}

normalize_bool(v) ==
    IF v.t = "bool" THEN v.b
    ELSE IF v.t = "str" /\ Lower(Strip(v.s)) \in TrueWords THEN TRUE
    ELSE IF v.t = "str" /\ Lower(Strip(v.s)) \in FalseWords THEN FALSE
    ELSE PyTruthy(v)

normalize_str(v) == IF v.t = "none" THEN EmptyStr ELSE Strip(PyToStr(v))

\* ---------------------------------------------------------------- selectors

\* A selector with what it denotes on the UI: the number of elements it matches
\* below a modal surface (inScope) and on the whole page (inPage).
NoSelector == [kind |-> "none", inScope |-> 0, inPage |-> 0]
Sel(kind, inScope, inPage) == [kind |-> kind, inScope |-> inScope, inPage |-> inPage]

SelectorKinds == {"css", "label", "role"}

\* selector_to_locator raises ValueError for an unsupported selector kind
LocatorThrows(selector) == selector.kind \notin SelectorKinds

\* a count that does not tell one match from several
LocatorCountAnyMatch(root, selector) ==
    IF (IF root = "page" THEN selector.inPage ELSE selector.inScope) >= 1 THEN 1 ELSE 0

\* selector_to_locator(root, selector).count()
LocatorCount(root, selector) == IF root = "page" THEN selector.inPage ELSE selector.inScope

\* a detail string of an Outcome: a code, and the index or text formatted into it
Note(code) == [code |-> code, idx |-> 0, text |-> <<>>]
NoteWithoutText(code, text) == [code |-> code, idx |-> 0, text |-> <<>>]
NoteText(code, text) == [code |-> code, idx |-> 0, text |-> text]

\* the candidates list of resolve_field_locator
Candidates(setting) == <<setting.primary>> \o setting.fallbacks

\* "primary" if index == 0 else f"fallback[{index - 1}]" (index counted from 1 here)
Summary(index) ==
    IF index = 1 THEN Note("primary") ELSE [code |-> "fallback", idx |-> index - 2, text |-> <<>>]

RECURSIVE ResolveFrom(_, _, _, _)
ResolveFrom(root, candidates, index, thrown) ==
    IF index > Len(candidates) THEN [found |-> FALSE, index |-> 0, summary |-> Note("none")]
    ELSE IF candidates[index].kind = "none"
         THEN ResolveFrom(root, candidates, index + 1, thrown)
    ELSE IF index \in thrown \/ LocatorThrows(candidates[index])
         THEN ResolveFrom(root, candidates, index + 1, thrown)
    ELSE IF LocatorCount(root, candidates[index]) = 1
         THEN [found |-> TRUE, index |-> index, summary |-> Summary(index)]
    ELSE ResolveFrom(root, candidates, index + 1, thrown)

\* resolve_field_locator; thrown: the candidates whose count() times out
resolve_field_locator(root, setting, thrown) ==
    ResolveFrom(root, Candidates(setting), 1, thrown)

\* ------------------------------------------------------ write/verify strategies

RECURSIVE OptionLabelFrom(_, _)
OptionLabelFrom(options, desired_text) ==
    IF options = <<>> THEN desired_text
    ELSE IF normalize_str(PyStr(Head(options).value)) = desired_text
         THEN (IF normalize_str(PyStr(Head(options).label)) # EmptyStr
               THEN normalize_str(PyStr(Head(options).label)) ELSE desired_text)
    ELSE IF normalize_str(PyStr(Head(options).label)) = desired_text
         THEN normalize_str(PyStr(Head(options).label))
    ELSE OptionLabelFrom(Tail(options), desired_text)

resolve_option_label(setting, desired) == OptionLabelFrom(setting.options, normalize_str(desired))

\* A control of the live UI: the text it shows or holds, its checked state, the
\* number of role elements (radio, option) carrying the resolved option label, and
\* whether a write to it takes effect.
Control(value, checked, nopt, accepts) ==
    [value |-> value, checked |-> checked, nopt |-> nopt, accepts |-> accepts]

\* one UI action: what was done, on which setting or container, on what kind of
\* element, and how many elements the lookup that found it matched
Act(op, on, what, n) == [op |-> op, on |-> on, what |-> what, n |-> n]

verify_locator_value(ctl, setting, desired, fault) ==
    LET control_type == setting.type
        desired_text == normalize_str(desired)
    IN  IF control_type \in {"checkbox", "switch"}
        THEN fault # "verify" /\ ctl.checked = normalize_bool(desired)
        ELSE IF control_type = "radio_group" THEN TRUE
        ELSE IF control_type = "dropdown_native"
        THEN fault # "verify"
             /\ (normalize_str(PyStr(ctl.value)) = desired_text
                 \/ Contains(normalize_str(PyStr(ctl.value)), desired_text))
        ELSE IF control_type = "dropdown_aria"
        THEN fault # "verify"
             /\ (Contains(normalize_str(PyStr(ctl.value)), resolve_option_label(setting, desired))
                 \/ Contains(normalize_str(PyStr(ctl.value)), desired_text))
        ELSE IF control_type \in {"textbox", "spinbutton"}
        THEN fault # "verify" /\ normalize_str(PyStr(ctl.value)) = desired_text
        ELSE TRUE

\* the result of apply_setting (ok, changed, note), with its effect on the control
\* and the UI actions it performed
Applied(ok, changed, note, ctl, acts) ==
    [ok |-> ok, changed |-> changed, note |-> note, ctl |-> ctl, acts |-> acts]

\* except PlaywrightError / except Exception: return False, changed, <message>
Raised(changed, ctl, acts) == Applied(FALSE, changed, Note("playwright-error"), ctl, acts)

\* a report that trusts no control type: what the read shows decides
FinishUntrusted(setting, desired, ctl, changed, acts, fault, selector_used) ==
    IF ~verify_locator_value(ctl, setting, desired, fault)
    THEN Applied(FALSE, changed, Note("verification-failed"), ctl, acts)
    ELSE Applied(TRUE, changed, selector_used, ctl, acts)

\* lines 248-254: verify, trust group controls, report
Finish(setting, desired, ctl, changed, acts, fault, selector_used) ==
    LET verified == verify_locator_value(ctl, setting, desired, fault)
        trusted == verified \/ setting.type \in {"radio_group", "dropdown_aria"}
    IN  IF ~trusted THEN Applied(FALSE, changed, Note("verification-failed"), ctl, acts)
        ELSE Applied(TRUE, changed, selector_used, ctl, acts)

\* a text strategy that fills the field whether or not it holds the target
ApplyTextAlwaysFill(setting, desired, ctl, fault, selector_used) ==
    LET current == normalize_str(PyStr(ctl.value))
        target == normalize_str(desired)
        filled == IF ctl.accepts THEN [ctl EXCEPT !.value = target] ELSE ctl
    IN  IF fault \in {"read", "write"} THEN Raised(FALSE, ctl, <<>>)
        ELSE Finish(setting, desired, filled, current # target,
                    <<Act("fill", setting.settingKey, "field", 1)>>, fault, selector_used)

\* textbox, spinbutton
ApplyText(setting, desired, ctl, fault, selector_used) ==
    LET current == normalize_str(PyStr(ctl.value))
        target == normalize_str(desired)
        filled == IF ctl.accepts THEN [ctl EXCEPT !.value = target] ELSE ctl
    IN  IF fault = "read" THEN Raised(FALSE, ctl, <<>>)
        ELSE IF current # target
        THEN IF fault = "write" THEN Raised(FALSE, ctl, <<>>)
             ELSE Finish(setting, desired, filled, TRUE,
                         <<Act("fill", setting.settingKey, "field", 1)>>, fault, selector_used)
        ELSE Finish(setting, desired, ctl, FALSE, <<>>, fault, selector_used)

\* checkbox, switch; check() and uncheck() raise when the state did not change
ApplyCheck(setting, desired, ctl, fault, selector_used) ==
    LET desired_bool == normalize_bool(desired)
        op == IF desired_bool THEN "check" ELSE "uncheck"
        act == <<Act(op, setting.settingKey, "field", 1)>>
    IN  IF fault = "read" THEN Raised(FALSE, ctl, <<>>)
        ELSE IF ctl.checked # desired_bool
        THEN IF fault = "write" THEN Raised(FALSE, ctl, <<>>)
             ELSE IF ~ctl.accepts THEN Raised(FALSE, ctl, act)
             ELSE Finish(setting, desired, [ctl EXCEPT !.checked = desired_bool], TRUE,
                         act, fault, selector_used)
        ELSE Finish(setting, desired, ctl, FALSE, <<>>, fault, selector_used)

\* radio_group: the first radio named by the resolved label, clicked if unchecked
ApplyRadio(setting, desired, ctl, fault, selector_used) ==
    LET label == resolve_option_label(setting, desired)
        clicked == IF ctl.accepts THEN [ctl EXCEPT !.checked = TRUE] ELSE ctl
    IN  IF fault = "read" THEN Raised(FALSE, ctl, <<>>)
        ELSE IF ctl.nopt = 0
        THEN Applied(FALSE, FALSE, NoteText("radio-option-not-found", label), ctl, <<>>)
        ELSE IF ~ctl.checked
        THEN IF fault = "write" THEN Raised(FALSE, ctl, <<>>)
             ELSE Finish(setting, desired, clicked, TRUE,
                         <<Act("click", setting.settingKey, "radio", ctl.nopt)>>,
                         fault, selector_used)
        ELSE Finish(setting, desired, ctl, FALSE, <<>>, fault, selector_used)

\* the value of the first option of the <select> carrying the label
RECURSIVE ValueOfLabel(_, _)
ValueOfLabel(options, label) ==
    IF options = <<>> THEN EmptyStr
    ELSE IF Head(options).label = label THEN Head(options).value
    ELSE ValueOfLabel(Tail(options), label)

\* dropdown_native: select by value, on failure by resolved label; the <select>
\* offers the options the schema lists
ApplyNative(setting, desired, ctl, fault, selector_used) ==
    LET desired_value == normalize_str(desired)
        current == normalize_str(PyStr(ctl.value))
        label == resolve_option_label(setting, desired)
        options == setting.options
        byValue == fault # "write" /\ \E i \in 1..Len(options) : options[i].value = desired_value
        byLabel == \E i \in 1..Len(options) : options[i].label = label
        selected == IF byValue THEN desired_value ELSE ValueOfLabel(options, label)
        after == IF ctl.accepts THEN [ctl EXCEPT !.value = selected] ELSE ctl
    IN  IF fault = "read" THEN Raised(FALSE, ctl, <<>>)
        ELSE IF current # desired_value
        THEN IF ~byValue /\ ~byLabel THEN Raised(FALSE, ctl, <<>>)
             ELSE Finish(setting, desired, after, TRUE,
                         <<Act("select", setting.settingKey, "field", 1)>>, fault, selector_used)
        ELSE Finish(setting, desired, ctl, FALSE, <<>>, fault, selector_used)

\* dropdown_aria: open, find the option by accessible name, click it
ApplyAria(setting, desired, ctl, fault, selector_used) ==
    LET option_label == resolve_option_label(setting, desired)
        open == <<Act("click", setting.settingKey, "field", 1)>>
        clicked == IF ctl.accepts THEN [ctl EXCEPT !.value = option_label] ELSE ctl
    IN  IF fault = "read" THEN Raised(FALSE, ctl, <<>>)
        ELSE IF ctl.nopt = 0
        THEN Applied(FALSE, FALSE, NoteText("aria-option-not-found", option_label), ctl,
                     open \o <<Act("press", setting.settingKey, "Escape", 0)>>)
        ELSE IF fault = "write" THEN Raised(FALSE, ctl, open)
        ELSE Finish(setting, desired, clicked, TRUE,
                    open \o <<Act("click", setting.settingKey, "option", ctl.nopt)>>,
                    fault, selector_used)

\* apply_setting(page, scope, setting, desired, timeout_ms) on control ctl; fault
\* names the call of this application that times out ("none": no call does)
apply_setting(root, setting, desired, ctl, fault) ==
    LET found == resolve_field_locator(root, setting, IF fault = "resolve" THEN {1} ELSE {})
        setting_type == setting.type
    IN  IF ~found.found THEN Applied(FALSE, FALSE, Note("no-unique-selector"), ctl, <<>>)
        ELSE IF setting_type \in {"textbox", "spinbutton"}
        THEN ApplyText(setting, desired, ctl, fault, found.summary)
        ELSE IF setting_type \in {"checkbox", "switch"}
        THEN ApplyCheck(setting, desired, ctl, fault, found.summary)
        ELSE IF setting_type = "radio_group"
        THEN ApplyRadio(setting, desired, ctl, fault, found.summary)
        ELSE IF setting_type = "dropdown_native"
        THEN ApplyNative(setting, desired, ctl, fault, found.summary)
        ELSE IF setting_type = "dropdown_aria"
        THEN ApplyAria(setting, desired, ctl, fault, found.summary)
        ELSE IF setting_type \in {"button_dialog", "text_display", "table"}
        THEN Applied(TRUE, FALSE, Note("not-writable"), ctl, <<>>)
        ELSE Applied(FALSE, FALSE, NoteText("unsupported-type", <<setting_type>>), ctl, <<>>)

\* --------------------------------------------------------- container orchestrator

\* navPath steps and container actions
Goto(url) == [action |-> "goto", url |-> url, kind |-> "", selector |-> NoSelector]
Click(kind, selector) == [action |-> "click", url |-> "", kind |-> kind, selector |-> selector]
Action(kind, selector) == [kind |-> kind, selector |-> selector]

\* lines 106-110: the url of the first goto step that has one ("" when none)
RECURSIVE FirstGotoUrl(_)
FirstGotoUrl(nav_path) ==
    IF nav_path = <<>> THEN ""
    ELSE IF Head(nav_path).action = "goto" /\ Head(nav_path).url # "" THEN Head(nav_path).url
    ELSE FirstGotoUrl(Tail(nav_path))

\* lines 115-129: the clicks of the navPath, each on the first match at page level;
\* failing: the steps whose click times out
RECURSIVE NavClicks(_, _, _, _)
NavClicks(containerKey, nav_path, index, failing) ==
    IF index > Len(nav_path) THEN <<>>
    ELSE LET step == nav_path[index]
             rest == NavClicks(containerKey, nav_path, index + 1, failing)
         IN  IF step.action # "click" THEN rest
             ELSE IF step.kind = "modal_close" THEN rest
             ELSE IF step.selector.kind = "none" THEN rest
             ELSE IF LocatorThrows(step.selector) THEN rest
             ELSE IF LocatorCount("page", step.selector) = 0 THEN rest
             ELSE IF index \in failing THEN rest
             ELSE <<Act("click", containerKey, "nav", index)>> \o rest

\* the first click step that reaches its click() call (0 when none does)
FirstNavClick(nav_path) ==
    LET reaching == {i \in 1..Len(nav_path) :
                        /\ nav_path[i].action = "click"
                        /\ nav_path[i].kind # "modal_close"
                        /\ nav_path[i].selector.kind \in SelectorKinds
                        /\ LocatorCount("page", nav_path[i].selector) > 0}
    IN  IF reaching = {} THEN 0 ELSE CHOOSE i \in reaching : \A j \in reaching : i <= j

\* lines 131-151: the surface of a modal container.  surface is what the page
\* shows: a dialog or an alertdialog carrying the title, a bare modal root, or
\* nothing; the fallback locator matches any of the three.  fault = "wait": the
\* first wait_for called times out.
ModalScope(surface, fault) ==
    IF surface = "dialog" /\ fault # "wait" THEN [raised |-> FALSE, scope |-> "dialog"]
    ELSE IF surface = "alertdialog" /\ fault # "wait" THEN [raised |-> FALSE, scope |-> "alertdialog"]
    ELSE IF surface \in {"dialog", "alertdialog"} THEN [raised |-> FALSE, scope |-> "fallback"]
    ELSE IF surface = "root" /\ fault # "wait" THEN [raised |-> FALSE, scope |-> "fallback"]
    ELSE IF surface = "root" THEN [raised |-> TRUE, scope |-> "page"]
    ELSE [raised |-> FALSE, scope |-> "page"]

\* open_container(page, container, timeout_ms); raised: an exception left it
open_container(container, surface, fault) ==
    LET nav_path == container.navPath
        goto_url == FirstGotoUrl(nav_path)
        went == IF goto_url # "" THEN <<Act("goto", container.containerKey, goto_url, 0)>> ELSE <<>>
        failing == IF fault = "navclick" THEN {FirstNavClick(nav_path)} ELSE {}
        clicks == NavClicks(container.containerKey, nav_path, 1, failing)
        modal == ModalScope(surface, fault)
    IN  IF goto_url # "" /\ fault = "goto"
        THEN [raised |-> TRUE, scope |-> "page", acts |-> <<>>]
        ELSE IF container.type = "modal"
        THEN [raised |-> modal.raised, scope |-> modal.scope, acts |-> went \o clicks]
        ELSE [raised |-> FALSE, scope |-> "page", acts |-> went \o clicks]

\* lines 271-275 and 292-296: number of matches of the target that is clicked,
\* scoped first, page level when the scoped first match is absent
TargetCount(root, selector) ==
    IF LocatorCount(root, selector) = 0 THEN LocatorCount("page", selector)
    ELSE LocatorCount(root, selector)

\* the loop shared by click_save_if_needed and close_modal: the first action of
\* one of the kinds whose target resolves and whose click does not raise;
\* failing: the actions whose click times out
RECURSIVE FirstClickable(_, _, _, _, _)
FirstClickable(root, actions, kinds, index, failing) ==
    IF index > Len(actions) THEN 0
    ELSE IF actions[index].kind \notin kinds
         THEN FirstClickable(root, actions, kinds, index + 1, failing)
    ELSE IF actions[index].selector.kind = "none"
         THEN FirstClickable(root, actions, kinds, index + 1, failing)
    ELSE IF LocatorThrows(actions[index].selector)
         THEN FirstClickable(root, actions, kinds, index + 1, failing)
    ELSE IF TargetCount(root, actions[index].selector) = 0
         THEN FirstClickable(root, actions, kinds, index + 1, failing)
    ELSE IF index \in failing
         THEN FirstClickable(root, actions, kinds, index + 1, failing)
    ELSE index

\* a save that does not look at changed
click_save_always(root, container, changed, fault) ==
    LET actions == container.actions
        first == FirstClickable(root, actions, {"save"}, 1, {})
        failing == IF fault = "save" THEN {first} ELSE {}
        hit == FirstClickable(root, actions, {"save"}, 1, failing)
    IN  IF hit = 0 THEN [saved |-> FALSE, acts |-> <<>>]
        ELSE [saved |-> TRUE, acts |-> <<Act("click", container.containerKey, "save", hit)>>]

\* click_save_if_needed(page, scope, container, changed, timeout_ms)
click_save_if_needed(root, container, changed, fault) ==
    LET actions == container.actions
        first == FirstClickable(root, actions, {"save"}, 1, {})
        failing == IF fault = "save" THEN {first} ELSE {}
        hit == FirstClickable(root, actions, {"save"}, 1, failing)
    IN  IF ~changed THEN [saved |-> FALSE, acts |-> <<>>]
        ELSE IF hit = 0 THEN [saved |-> FALSE, acts |-> <<>>]
        ELSE [saved |-> TRUE, acts |-> <<Act("click", container.containerKey, "save", hit)>>]

\* a close that does not look at the type of the container
close_any_container(root, container, fault) ==
    LET actions == container.actions
        first == FirstClickable(root, actions, {"cancel", "close"}, 1, {})
        failing == IF fault = "close" THEN {first} ELSE {}
        hit == FirstClickable(root, actions, {"cancel", "close"}, 1, failing)
    IN  IF hit # 0 THEN <<Act("click", container.containerKey, "close", hit)>>
        ELSE IF fault = "escape" THEN <<>>
        ELSE <<Act("press", container.containerKey, "Escape", 0)>>

\* close_modal(page, scope, container, timeout_ms); fault = "close": the first
\* click times out, fault = "escape": the key press raises; it never raises
close_modal(root, container, fault) ==
    LET actions == container.actions
        first == FirstClickable(root, actions, {"cancel", "close"}, 1, {})
        failing == IF fault = "close" THEN {first} ELSE {}
        hit == FirstClickable(root, actions, {"cancel", "close"}, 1, failing)
    IN  IF container.type # "modal" THEN <<>>
        ELSE IF hit # 0 THEN <<Act("click", container.containerKey, "close", hit)>>
        ELSE IF fault = "escape" THEN <<>>
        ELSE <<Act("press", container.containerKey, "Escape", 0)>>

\* ------------------------------------------------------ setting application engine

\* dict lookups of main: the last record carrying the key wins
HasKey(records, field, key) == \E i \in 1..Len(records) : records[i][field] = key
LastWithKey(records, field, key) ==
    records[CHOOSE i \in 1..Len(records) :
                /\ records[i][field] = key
                /\ \A j \in (i + 1)..Len(records) : records[j][field] # key]

\* settings_by_key and containers_by_key
settings_by_key(key) == LastWithKey(schema.settings, "settingKey", key)
containers_by_key(key) == LastWithKey(schema.containers, "containerKey", key)

\* a grouping that opens a new group for every setting
AddAsNewGroup(acc, container_key, key) ==
    Append(acc, [containerKey |-> container_key, keys |-> <<key>>])

\* settings_by_container[container_key].append(setting)
AddToGroup(acc, container_key, key) ==
    IF \E i \in 1..Len(acc) : acc[i].containerKey = container_key
    THEN [i \in 1..Len(acc) |->
            IF acc[i].containerKey = container_key
            THEN [acc[i] EXCEPT !.keys = Append(@, key)] ELSE acc[i]]
    ELSE Append(acc, [containerKey |-> container_key, keys |-> <<key>>])

\* a grouping that keeps the unknown keys, under the container key ""
RECURSIVE GroupValuesKeepingUnknown(_, _, _)
GroupValuesKeepingUnknown(vals, settings, acc) ==
    IF vals = <<>> THEN acc
    ELSE IF ~HasKey(settings, "settingKey", Head(vals).key)
         THEN GroupValuesKeepingUnknown(Tail(vals), settings, AddToGroup(acc, "", Head(vals).key))
    ELSE GroupValuesKeepingUnknown(Tail(vals), settings,
                     AddToGroup(acc, LastWithKey(settings, "settingKey", Head(vals).key).containerKey,
                                Head(vals).key))

\* lines 331-337: group the desired values by container, dropping unknown keys
RECURSIVE GroupValues(_, _, _)
GroupValues(vals, settings, acc) ==
    IF vals = <<>> THEN acc
    ELSE IF ~HasKey(settings, "settingKey", Head(vals).key)
         THEN GroupValues(Tail(vals), settings, acc)
    ELSE GroupValues(Tail(vals), settings,
                     AddToGroup(acc, LastWithKey(settings, "settingKey", Head(vals).key).containerKey,
                                Head(vals).key))

\* setting["_desired"]
DesiredOf(key) == values[CHOOSE i \in 1..Len(values) : values[i].key = key].desired

\* lines 350-357: the Outcome of a setting whose container is unknown
MissingOutcome(key, container_key) ==
    [settingKey |-> key, containerKey |-> container_key,
     status |-> "failed", reason |-> Note("missing-container")]

\* lines 372-381: the Outcome of an applied setting
Outcome(setting, container_key, desired, status, note) ==
    [settingKey |-> setting.settingKey, containerKey |-> container_key,
     type |-> setting.type, desired |-> desired, status |-> status, detail |-> note]

RECURSIVE MissingOutcomes(_, _)
MissingOutcomes(keys, container_key) ==
    IF keys = <<>> THEN <<>>
    ELSE <<MissingOutcome(Head(keys), container_key)>> \o MissingOutcomes(Tail(keys), container_key)

\* a status that does not look at changed
StatusIgnoringChange(ok, changed) == IF ok THEN "applied" ELSE "failed"

\* lines 366-371
StatusOf(ok, changed) == IF ok THEN (IF changed THEN "applied" ELSE "skipped") ELSE "failed"

\* lines 366-369: what one application adds to changed_count
ChangeCounted(ok, changed) == IF ok /\ changed THEN 1 ELSE 0

CountStatus(outs, status) == Cardinality({i \in 1..Len(outs) : outs[i].status = status})

\* lines 390-404
BuildReport(outs, saved) ==
    [written |-> TRUE,
     counts |-> [total |-> Len(outs),
                 applied |-> CountStatus(outs, "applied"),
                 skipped |-> CountStatus(outs, "skipped"),
                 failed |-> CountStatus(outs, "failed"),
                 savedContainers |-> Len(saved)],
     savedContainers |-> saved,
     outcomes |-> outs]

NoReport ==
    [written |-> FALSE,
     counts |-> [total |-> 0, applied |-> 0, skipped |-> 0, failed |-> 0, savedContainers |-> 0],
     savedContainers |-> <<>>,
     outcomes |-> <<>>]

\* lines 410-414: main's return value
ExitStatus(outs) == IF CountStatus(outs, "failed") > 0 THEN 1 ELSE 0

\* an exception leaving main ends the process with Python's status for it
UncaughtExitStatus == 1

\* a call may time out while the budget of injected failures lasts
MayFail(fault) == fault = "none" \/ faults < MaxFaults
Spent(fault) == IF fault = "none" THEN faults ELSE faults + 1

CurrentGroup == groups[gi]
CurrentContainer == containers_by_key(CurrentGroup.containerKey)

\* the calls of open_container that can time out on this container
OpenFaults(container, surface) ==
    {"none"}
    \cup (IF FirstGotoUrl(container.navPath) # "" THEN {"goto"} ELSE {})
    \cup (IF FirstNavClick(container.navPath) # 0 THEN {"navclick"} ELSE {})
    \cup (IF container.type = "modal" /\ surface # "none" THEN {"wait"} ELSE {})

\* the calls of apply_setting that can time out on this setting
ApplyFaults(setting) ==
    {"none", "resolve"}
    \cup (IF setting.type \in {"textbox", "spinbutton", "checkbox", "switch",
                               "dropdown_native", "dropdown_aria"}
          THEN {"read", "write", "verify"} ELSE {})
    \cup (IF setting.type = "radio_group" THEN {"read", "write"} ELSE {})

\* lines 324-340
Group ==
    /\ pc = "start"
    /\ groups' = GroupValues(values, schema.settings, <<>>)
    /\ gi' = 1
    /\ pc' = "loop"
    /\ UNCHANGED <<schema, values, ui, si, scope, changed_count, outcomes, saved_containers,
                   log, faults, report, exitCode, run, prev, pureVars>>

\* lines 346-358
MissingContainer ==
    /\ pc = "loop"
    /\ gi <= Len(groups)
    /\ ~HasKey(schema.containers, "containerKey", CurrentGroup.containerKey)
    /\ outcomes' = outcomes \o MissingOutcomes(CurrentGroup.keys, CurrentGroup.containerKey)
    /\ gi' = gi + 1
    /\ UNCHANGED <<schema, values, ui, pc, groups, si, scope, changed_count, saved_containers,
                   log, faults, report, exitCode, run, prev, pureVars>>

\* lines 360-361; an exception leaving open_container leaves main
OpenContainer ==
    /\ pc = "loop"
    /\ gi <= Len(groups)
    /\ HasKey(schema.containers, "containerKey", CurrentGroup.containerKey)
    /\ \E fault \in OpenFaults(CurrentContainer, ui.surface[CurrentGroup.containerKey]) :
        LET opened == open_container(CurrentContainer, ui.surface[CurrentGroup.containerKey], fault)
        IN  /\ MayFail(fault)
            /\ faults' = Spent(fault)
            /\ log' = log \o opened.acts
            /\ IF opened.raised
               THEN /\ pc' = "crashed"
                    /\ exitCode' = UncaughtExitStatus
                    /\ UNCHANGED <<scope, si, changed_count>>
               ELSE /\ pc' = "apply"
                    /\ scope' = opened.scope
                    /\ si' = 1
                    /\ changed_count' = 0
                    /\ UNCHANGED exitCode
    /\ UNCHANGED <<schema, values, ui, groups, gi, outcomes, saved_containers, report, run, prev, pureVars>>

\* lines 363-381: one iteration of the settings loop
ApplySetting ==
    /\ pc = "apply"
    /\ LET key == CurrentGroup.keys[si]
           setting == settings_by_key(key)
           desired == DesiredOf(key)
       IN  \E fault \in ApplyFaults(setting) :
            LET result == apply_setting(scope, setting, desired, ui.controls[key], fault)
            IN  /\ MayFail(fault)
                /\ faults' = Spent(fault)
                /\ outcomes' = Append(outcomes,
                                      Outcome(setting, CurrentGroup.containerKey, desired,
                                              StatusOf(result.ok, result.changed), result.note))
                /\ changed_count' = changed_count + ChangeCounted(result.ok, result.changed)
                /\ ui' = [ui EXCEPT !.controls[key] = result.ctl]
                /\ log' = log \o result.acts
    /\ si' = si + 1
    /\ pc' = IF si = Len(CurrentGroup.keys) THEN "save" ELSE "apply"
    /\ UNCHANGED <<schema, values, groups, gi, scope, saved_containers, report, exitCode, run, prev, pureVars>>

\* lines 383-384
SaveIfNeeded ==
    /\ pc = "save"
    /\ \E fault \in {"none", "save"} :
        LET save == click_save_if_needed(scope, CurrentContainer, changed_count > 0, fault)
        IN  /\ MayFail(fault)
            /\ fault = "save" => click_save_if_needed(scope, CurrentContainer, changed_count > 0, "none").saved
            /\ faults' = Spent(fault)
            /\ saved_containers' = IF save.saved THEN Append(saved_containers, CurrentGroup.containerKey)
                                   ELSE saved_containers
            /\ log' = log \o save.acts
    /\ pc' = "close"
    /\ UNCHANGED <<schema, values, ui, groups, gi, si, scope, changed_count, outcomes,
                   report, exitCode, run, prev, pureVars>>

\* line 386, then the next container
CloseModal ==
    /\ pc = "close"
    /\ \E fault \in {"none", "close", "escape"} :
        /\ MayFail(fault)
        /\ fault # "none" => CurrentContainer.type = "modal"
        /\ fault = "close" => close_modal(scope, CurrentContainer, "none") # close_modal(scope, CurrentContainer, "close")
        /\ fault = "escape" => close_modal(scope, CurrentContainer, "none") # close_modal(scope, CurrentContainer, "escape")
        /\ faults' = Spent(fault)
        /\ log' = log \o close_modal(scope, CurrentContainer, fault)
    /\ gi' = gi + 1
    /\ pc' = "loop"
    /\ UNCHANGED <<schema, values, ui, groups, si, scope, changed_count, outcomes,
                   saved_containers, report, exitCode, run, prev, pureVars>>

\* lines 388-414
WriteReport ==
    /\ pc = "loop"
    /\ gi > Len(groups)
    /\ report' = BuildReport(outcomes, saved_containers)
    /\ exitCode' = ExitStatus(outcomes)
    /\ pc' = "done"
    /\ UNCHANGED <<schema, values, ui, groups, gi, si, scope, changed_count, outcomes,
                   saved_containers, log, faults, run, prev, pureVars>>

\* the same command run again on the same schema, values and UI
Rerun ==
    /\ pc = "done"
    /\ run = 1
    /\ run' = 2
    /\ prev' = report
    /\ pc' = "start"
    /\ groups' = <<>>
    /\ gi' = 0
    /\ si' = 0
    /\ scope' = "page"
    /\ changed_count' = 0
    /\ outcomes' = <<>>
    /\ saved_containers' = <<>>
    /\ log' = <<>>
    /\ report' = NoReport
    /\ exitCode' = -1
    /\ UNCHANGED <<schema, values, ui, faults, pureVars>>

\* ------------------------------------------------------------------- inputs

Types == {"textbox", "spinbutton", "checkbox", "switch", "radio_group", "dropdown_native",
          "dropdown_aria", "button_dialog", "text_display", "table", "slider"}

Setting(key, container_key, type, primary, fallbacks, options) ==
    [settingKey |-> key, containerKey |-> container_key, type |-> type,
     primary |-> primary, fallbacks |-> fallbacks, options |-> options]

Container(key, type, nav_path, actions) ==
    [containerKey |-> key, type |-> type, navPath |-> nav_path, actions |-> actions]

Unique == Sel("css", 1, 1)
Ambiguous == Sel("role", 2, 2)
Absent == Sel("label", 0, 0)
PageOnly == Sel("css", 0, 1)
Unsupported == Sel("xpath", 1, 1)

\* selector blocks: resolved by the primary, by fallbacks[1], by nothing
SelectorBlocks ==
    {[primary |-> Unique, fallbacks |-> <<>>],
     [primary |-> Ambiguous, fallbacks |-> <<Absent, Unique>>],
     [primary |-> NoSelector, fallbacks |-> <<Unsupported, Ambiguous>>]}

DesiredValues == {PyStr(<<" ", "a">>), PyBool(FALSE)}

Texts == {<<"a">>, <<"b">>}

OptionLists ==
    {<<[value |-> <<"a">>, label |-> <<"A">>], [value |-> <<"b">>, label |-> <<"b">>]>>,
     <<[value |-> <<"a", "b">>, label |-> <<"a">>]>>}

IdleControl == Control(<<>>, FALSE, 0, TRUE)

\* the states a control of the type can be in
ControlsOf(type) ==
    IF type \in {"textbox", "spinbutton", "dropdown_native"}
    THEN {Control(v, FALSE, 0, acc) : v \in Texts, acc \in BOOLEAN}
    ELSE IF type \in {"checkbox", "switch"}
    THEN {Control(<<>>, c, 0, acc) : c \in BOOLEAN, acc \in BOOLEAN}
    ELSE IF type = "radio_group"
    THEN {IdleControl}
         \cup {Control(<<>>, c[1], c[2], c[3]) : c \in BOOLEAN \X (1..2) \X BOOLEAN}
    ELSE IF type = "dropdown_aria"
    THEN {Control(<<"b">>, FALSE, 0, TRUE)}
         \cup {Control(<<"b">>, FALSE, c[1], c[2]) : c \in (1..2) \X BOOLEAN}
    ELSE {IdleControl}

OptionsOf(type) ==
    IF type \in {"radio_group", "dropdown_native", "dropdown_aria"} THEN OptionLists ELSE {<<>>}

NavPaths ==
    {<<>>,
     <<Goto("u1")>>,
     <<Click("", Unique), Goto("u1"), Click("modal_close", Unique), Click("", Absent),
       Click("", Ambiguous), Goto("u2")>>}

ActionLists ==
    {<<>>,
     <<Action("save", Unique)>>,
     <<Action("save", NoSelector), Action("cancel", Unsupported), Action("save", PageOnly),
       Action("cancel", Unique), Action("save", Unique), Action("close", PageOnly)>>,
     <<Action("save", Absent), Action("close", Absent)>>}

Surfaces == {"dialog", "alertdialog", "root", "none"}

\* one input of a run: the schema, the desired values, the UI
Input(containers, settings, vals, controls, surface) ==
    [schema |-> [containers |-> containers, settings |-> settings],
     values |-> vals,
     ui |-> [controls |-> controls, surface |-> surface]]

Entry(key, desired) == [key |-> key, desired |-> desired]

PlainContainer(key) == Container(key, "page", <<>>, <<Action("save", Unique)>>)

\* a setting with its control on the UI and the value desired for it
Case(type, options, control, desired, block) ==
    [type |-> type, options |-> options, control |-> control, desired |-> desired,
     primary |-> block.primary, fallbacks |-> block.fallbacks]

SettingOf(key, container_key, case) ==
    Setting(key, container_key, case.type, case.primary, case.fallbacks, case.options)

ResolvedByPrimary == [primary |-> Unique, fallbacks |-> <<>>]

\* every type with every control state, option list, desired value and selector block
RichCases ==
    UNION {{Case(type, o, c, d, b) :
                o \in OptionsOf(type), c \in ControlsOf(type), d \in DesiredValues,
                b \in SelectorBlocks} : type \in Types}

\* an applied, a skipped, a verification-failed and an always-clicked setting
FewCases ==
    {Case("checkbox", <<>>, Control(<<>>, FALSE, 0, TRUE), PyStr(<<" ", "a">>), ResolvedByPrimary),
     Case("textbox", <<>>, Control(<<"a">>, FALSE, 0, TRUE), PyStr(<<" ", "a">>), ResolvedByPrimary),
     Case("spinbutton", <<>>, Control(<<"b">>, FALSE, 0, FALSE), PyStr(<<" ", "a">>), ResolvedByPrimary),
     Case("dropdown_aria", <<[value |-> <<"a">>, label |-> <<"A">>]>>,
          Control(<<"b">>, FALSE, 1, TRUE), PyStr(<<" ", "a">>), ResolvedByPrimary)}

PlainContainers == {PlainContainer("c1"), Container("c1", "page", <<>>, <<>>)}

SettingInputs ==
    {Input(<<c>>, <<SettingOf("s1", "c1", case)>>, <<Entry("s1", case.desired)>>,
           [k \in {"s1"} |-> case.control], [k \in {"c1"} |-> "none"]) :
        case \in RichCases, c \in PlainContainers}

\* every container shape around a few settings
ContainerInputs ==
    {Input(<<Container("c1", x[1], x[2], x[3])>>, <<SettingOf("s1", "c1", case)>>,
           <<Entry("s1", case.desired)>>,
           [k \in {"s1"} |-> case.control], [k \in {"c1"} |-> x[4]]) :
        case \in FewCases,
        x \in {y \in {"page", "modal"} \X NavPaths \X ActionLists \X Surfaces :
                  y[1] = "page" => y[4] = "none"}}

SecondContainer ==
    Container("c2", "modal", <<Goto("u2")>>,
              <<Action("cancel", Absent), Action("save", PageOnly), Action("close", Unique)>>)

ValueOrders ==
    {<<"s1", "s2">>, <<"s2", "s1">>, <<"ghost", "s1">>, <<"s2", "ghost">>, <<"ghost">>,
     <<"s1", "ghost", "s2">>}

\* two settings in one or two containers, the second container known or not, and
\* desired values naming a key the schema does not have
MultiInputs ==
    {Input(containers,
           <<SettingOf("s1", "c1", case), Setting("s2", x[1], "switch", Unique, <<>>, <<>>)>>,
           [i \in 1..Len(order) |->
                Entry(order[i], IF order[i] = "s1" THEN case.desired
                                ELSE IF order[i] = "s2" THEN PyStr(<<"O", "N">>)
                                ELSE PyBool(TRUE))],
           [k \in {"s1", "s2"} |-> IF k = "s1" THEN case.control ELSE Control(<<>>, x[2], 0, TRUE)],
           [k \in {"c1", "c2"} |-> IF k = "c1" THEN "none" ELSE "dialog"]) :
        case \in FewCases,
        containers \in {<<PlainContainer("c1")>>, <<PlainContainer("c1"), SecondContainer>>},
        x \in {"c1", "c2"} \X BOOLEAN,
        order \in ValueOrders}

Inputs == SettingInputs \cup ContainerInputs \cup MultiInputs

Init ==
    /\ \E input \in Inputs :
        /\ schema = input.schema
        /\ values = input.values
        /\ ui = input.ui
    /\ pc = "start"
    /\ groups = <<>>
    /\ gi = 0
    /\ si = 0
    /\ scope = "page"
    /\ changed_count = 0
    /\ outcomes = <<>>
    /\ saved_containers = <<>>
    /\ log = <<>>
    /\ faults = 0
    /\ report = NoReport
    /\ exitCode = -1
    /\ run = 1
    /\ prev = NoReport
    /\ rin = <<>>
    /\ rout = <<>>
    /\ snapA = <<>>
    /\ snapB = <<>>
    /\ diff = <<>>

Next ==
    \/ Group
    \/ MissingContainer
    \/ OpenContainer
    \/ ApplySetting
    \/ SaveIfNeeded
    \/ CloseModal
    \/ WriteReport
    \/ Rerun

Spec == Init /\ [][Next]_vars

\* -------------------------------------------------- locator resolution on its own

\* what a candidate can be: absent, of an unsupported kind, or matching 0..MaxMatches
CandidateSelectors ==
    {NoSelector, Unsupported} \cup {Sel("css", n, n) : n \in 0..MaxMatches}

FallbackLists == UNION {[1..n -> CandidateSelectors] : n \in 0..MaxFallbacks}

NotResolved == [done |-> FALSE, found |-> FALSE, index |-> 0, summary |-> Note("none")]

InitResolve ==
    /\ \E primary \in CandidateSelectors, fallbacks \in FallbackLists,
          thrown \in {{}} \cup {{i} : i \in 1..(MaxFallbacks + 1)} :
        rin = [setting |-> Setting("s1", "c1", "textbox", primary, fallbacks, <<>>),
               thrown |-> thrown]
    /\ rout = NotResolved
    /\ schema = <<>> /\ values = <<>> /\ ui = <<>> /\ pc = "resolve" /\ groups = <<>>
    /\ gi = 0 /\ si = 0 /\ scope = "dialog" /\ changed_count = 0 /\ outcomes = <<>>
    /\ saved_containers = <<>> /\ log = <<>> /\ faults = 0 /\ report = NoReport
    /\ exitCode = -1 /\ run = 1 /\ prev = NoReport
    /\ snapA = <<>> /\ snapB = <<>> /\ diff = <<>>

\* locator, selector_used = resolve_field_locator(page, scope, setting)
Resolve ==
    /\ pc = "resolve"
    /\ ~rout.done
    /\ rout' = [done |-> TRUE] @@ resolve_field_locator(scope, rin.setting, rin.thrown)
    /\ UNCHANGED <<applyVars, rin, snapA, snapB, diff>>

NextResolve == Resolve

SpecResolve == InitResolve /\ [][NextResolve]_vars

\* ------------------------------------------------ resolve_option_label, on its own

\* options with the values "a" and "b" and with no label, the label "a" or "A"
LabelOptions ==
    {[value |-> v, label |-> l] : v \in {<<"a">>, <<"b">>}, l \in {<<>>, <<"a">>, <<"A">>}}

LabelOptionLists == UNION {[1..n -> LabelOptions] : n \in 0..MaxOptions}

LabelDesired == {PyStr(<<"a">>), PyStr(<<" ", "a">>), PyStr(<<"A">>), PyNone}

NoLabel == [done |-> FALSE, label |-> <<>>]

InitLabel ==
    /\ \E options \in LabelOptionLists, desired \in LabelDesired :
        rin = [setting |-> Setting("s1", "c1", "dropdown_native", Unique, <<>>, options),
               desired |-> desired]
    /\ rout = NoLabel
    /\ schema = <<>> /\ values = <<>> /\ ui = <<>> /\ pc = "label" /\ groups = <<>>
    /\ gi = 0 /\ si = 0 /\ scope = "page" /\ changed_count = 0 /\ outcomes = <<>>
    /\ saved_containers = <<>> /\ log = <<>> /\ faults = 0 /\ report = NoReport
    /\ exitCode = -1 /\ run = 1 /\ prev = NoReport
    /\ snapA = <<>> /\ snapB = <<>> /\ diff = <<>>

\* option_label = resolve_option_label(setting, desired)
ResolveLabel ==
    /\ pc = "label"
    /\ ~rout.done
    /\ rout' = [done |-> TRUE, label |-> resolve_option_label(rin.setting, rin.desired)]
    /\ UNCHANGED <<applyVars, rin, snapA, snapB, diff>>

NextLabel == ResolveLabel

SpecLabel == InitLabel /\ [][NextLabel]_vars

\* ------------------------------------------------------- schema drift detector

\* A setting of a snapshot, in the "settings" form (keyed by settingKey, with
\* containerKey, groupTitle and label) or in the "fieldRecords" form (keyed by
\* field_id, with a container title and a canonical control id); id is "" when
\* the key is absent or empty.
DriftSetting(form, id, container_key, canonical, label, type, options, current) ==
    [form |-> form, id |-> id, containerKey |-> container_key, canonical |-> canonical,
     label |-> label, type |-> type, options |-> options, currentValue |-> current]

schema_settings(snapshot) == snapshot.settings

setting_label(setting) == setting.label

setting_type(setting) == setting.type

setting_id(setting) == setting.id

\* "|".join(parts)
RECURSIVE Join(_)
Join(parts) ==
    IF parts = <<>> THEN <<>>
    ELSE IF Len(parts) = 1 THEN parts[1]
    ELSE parts[1] \o <<"|">> \o Join(Tail(parts))

\* a fieldRecords signature joins page, breadcrumb, container title, group
\* title, canonical control id, frame url, modal title and type; a settings
\* signature joins containerKey, groupTitle, label and type
setting_signature(setting) ==
    IF setting.form = "fieldRecords"
    THEN Join(<<<<>>, <<>>, <<setting.containerKey>>, <<>>, setting.canonical,
                <<>>, <<>>, <<setting_type(setting)>>>>)
    ELSE Join(<<<<setting.containerKey>>, <<>>, setting_label(setting),
                <<setting_type(setting)>>>>)

Digits == {"0", "1", "2", "3", "4", "5", "6", "7", "8", "9"}

\* a classification by the label alone
LabelOnlyTimestamp(setting) ==
    \/ Contains(Lower(setting_label(setting)), <<"t", "i", "m", "e">>)
    \/ Contains(Lower(setting_label(setting)), <<"d", "a", "t", "e">>)

is_timestamp_field(setting) ==
    LET label == Lower(setting_label(setting))
        value == setting.currentValue
    IN  \/ Contains(label, <<"t", "i", "m", "e">>)
        \/ Contains(label, <<"d", "a", "t", "e">>)
        \/ /\ value # <<>>
           /\ \E i \in 1..Len(value) : value[i] \in {"/", ":"}
           /\ \E i \in 1..Len(value) : value[i] \in Digits

\* a scan that reports every setting without options, whatever its type
RECURSIVE MissingOptionsOfAnyType(_)
MissingOptionsOfAnyType(settings) ==
    IF settings = <<>> THEN <<>>
    ELSE IF Len(Head(settings).options) = 0
         THEN <<[fieldId |-> setting_id(Head(settings)), label |-> setting_label(Head(settings)),
                  reason |-> "dropdown has empty options[]"]>>
              \o MissingOptionsOfAnyType(Tail(settings))
    ELSE MissingOptionsOfAnyType(Tail(settings))

\* a scan that looks at the dropdown_native settings only
RECURSIVE MissingOptionsNativeOnly(_)
MissingOptionsNativeOnly(settings) ==
    IF settings = <<>> THEN <<>>
    ELSE IF setting_type(Head(settings)) = "dropdown_native" /\ Len(Head(settings).options) = 0
         THEN <<[fieldId |-> setting_id(Head(settings)), label |-> setting_label(Head(settings)),
                  reason |-> "dropdown has empty options[]"]>>
              \o MissingOptionsNativeOnly(Tail(settings))
    ELSE MissingOptionsNativeOnly(Tail(settings))

\* the entries of dropdown_missing_options, in the order of the settings
RECURSIVE dropdown_missing_options(_)
dropdown_missing_options(settings) ==
    IF settings = <<>> THEN <<>>
    ELSE IF setting_type(Head(settings)) \notin {"dropdown_native", "dropdown_aria"}
         THEN dropdown_missing_options(Tail(settings))
    ELSE IF Len(Head(settings).options) = 0
         THEN <<[fieldId |-> setting_id(Head(settings)), label |-> setting_label(Head(settings)),
                  reason |-> "dropdown has empty options[]"]>>
              \o dropdown_missing_options(Tail(settings))
    ELSE dropdown_missing_options(Tail(settings))

\* a dict built by a comprehension over the items: for each key the value of the
\* last item carrying it
LastIndexOf(items, keep, key_of, key) ==
    CHOOSE i \in 1..Len(items) :
        /\ keep[i] /\ key_of[i] = key
        /\ \A j \in (i + 1)..Len(items) : ~(keep[j] /\ key_of[j] = key)

\* str(option.get("label") or option.get("value") or "")
OptionText(option) == IF option.label # <<>> THEN option.label ELSE option.value

\* radio_order_index: signature -> option labels, for the radio_group settings
radio_order_index(settings) ==
    LET keep == [i \in 1..Len(settings) |-> setting_type(settings[i]) = "radio_group"]
        sig == [i \in 1..Len(settings) |-> setting_signature(settings[i])]
        keys == {sig[i] : i \in {j \in 1..Len(settings) : keep[j]}}
    IN  [k \in keys |->
            LET item == settings[LastIndexOf(settings, keep, sig, k)]
            IN  [i \in 1..Len(item.options) |-> OptionText(item.options[i])]]

\* an index by identifier that leaves the timestamp fields out
SettingsByIdNoStamps(settings) ==
    LET keep == [i \in 1..Len(settings) |->
                    setting_id(settings[i]) # "" /\ ~is_timestamp_field(settings[i])]
        ids == [i \in 1..Len(settings) |-> setting_id(settings[i])]
        keys == {ids[i] : i \in {j \in 1..Len(settings) : keep[j]}}
    IN  [k \in keys |-> settings[LastIndexOf(settings, keep, ids, k)]]

\* {setting_id(item): item for item in settings if setting_id(item)}
SettingsById(settings) ==
    LET keep == [i \in 1..Len(settings) |-> setting_id(settings[i]) # ""]
        ids == [i \in 1..Len(settings) |-> setting_id(settings[i])]
        keys == {ids[i] : i \in {j \in 1..Len(settings) : keep[j]}}
    IN  [k \in keys |-> settings[LastIndexOf(settings, keep, ids, k)]]

\* lines 160-169: signature -> identifier over the settings that have an
\* identifier and are not timestamp fields
SignatureMap(settings) ==
    LET keep == [i \in 1..Len(settings) |->
                    setting_id(settings[i]) # "" /\ ~is_timestamp_field(settings[i])]
        sig == [i \in 1..Len(settings) |-> setting_signature(settings[i])]
        keys == {sig[i] : i \in {j \in 1..Len(settings) : keep[j]}}
    IN  [k \in keys |-> setting_id(settings[LastIndexOf(settings, keep, sig, k)])]

Occurrences(seq, x) == Cardinality({i \in 1..Len(seq) : seq[i] = x})

\* a comparison of the sets of labels
SameSet(first, second) == Range(first) = Range(second)

\* sorted(first) == sorted(second)
SameSorted(first, second) ==
    /\ Len(first) = Len(second)
    /\ \A x \in Range(first) \cup Range(second) : Occurrences(first, x) = Occurrences(second, x)

\* sorted(second_keys - first_keys)
AddedKeys(first_keys, second_keys) == second_keys \ first_keys

\* a removal list that keeps the keys the second snapshot still has
RemovedKeysUnfiltered(first_keys, second_keys) == first_keys

\* sorted(first_keys - second_keys)
RemovedKeys(first_keys, second_keys) == first_keys \ second_keys

\* compare_schemas(first, second); each sorted list of distinct keys is the set
\* of its elements
compare_schemas(first, second) ==
    LET first_container_keys == {first.containers[i].containerKey : i \in 1..Len(first.containers)}
        second_container_keys == {second.containers[i].containerKey : i \in 1..Len(second.containers)}
        first_settings_list == schema_settings(first)
        second_settings_list == schema_settings(second)
        first_settings == SettingsById(first_settings_list)
        second_settings == SettingsById(second_settings_list)
        first_setting_keys == DOMAIN first_settings
        second_setting_keys == DOMAIN second_settings
        changed_labels_or_types ==
            {[settingKey |-> key,
              first |-> [label |-> setting_label(first_settings[key]),
                         type |-> setting_type(first_settings[key])],
              second |-> [label |-> setting_label(second_settings[key]),
                          type |-> setting_type(second_settings[key])]] :
                key \in {k \in first_setting_keys \cap second_setting_keys :
                            \/ setting_label(first_settings[k]) # setting_label(second_settings[k])
                            \/ setting_type(first_settings[k]) # setting_type(second_settings[k])}}
        first_signature_map == SignatureMap(first_settings_list)
        second_signature_map == SignatureMap(second_settings_list)
        field_id_drift ==
            {[signature |-> sg,
              firstFieldId |-> first_signature_map[sg],
              secondFieldId |-> second_signature_map[sg]] :
                sg \in {k \in DOMAIN first_signature_map \cap DOMAIN second_signature_map :
                           first_signature_map[k] # second_signature_map[k]}}
        first_radio == radio_order_index(first_settings_list)
        second_radio == radio_order_index(second_settings_list)
        radio_ordering_changed ==
            {[signature |-> sg, firstOrder |-> first_radio[sg], secondOrder |-> second_radio[sg]] :
                sg \in {k \in DOMAIN first_radio \cap DOMAIN second_radio :
                           /\ first_radio[k] # second_radio[k]
                           /\ SameSorted(first_radio[k], second_radio[k])}}
    IN  [containers |-> [added |-> AddedKeys(first_container_keys, second_container_keys),
                         removed |-> RemovedKeys(first_container_keys, second_container_keys)],
         settings |-> [added |-> AddedKeys(first_setting_keys, second_setting_keys),
                       removed |-> RemovedKeys(first_setting_keys, second_setting_keys),
                       labelOrTypeChanged |-> changed_labels_or_types],
         fieldIdDrift |-> field_id_drift,
         dropdownsMissingOptionsA |-> dropdown_missing_options(first_settings_list),
         dropdownsMissingOptionsB |-> dropdown_missing_options(second_settings_list),
         radioOrderingChangedWithoutLabelChange |-> radio_ordering_changed]

has_drift(d) ==
    \/ d.containers.added # {}
    \/ d.containers.removed # {}
    \/ d.settings.added # {}
    \/ d.settings.removed # {}
    \/ d.settings.labelOrTypeChanged # {}
    \/ d.fieldIdDrift # {}
    \/ d.dropdownsMissingOptionsA # <<>>
    \/ d.dropdownsMissingOptionsB # <<>>
    \/ d.radioOrderingChangedWithoutLabelChange # {}

Opt(value, label) == [value |-> value, label |-> label]

\* the settings snapshots are drawn from, in three families. Choice settings: a
\* radio group in two option orders, and under a second identifier with a
\* repeated label; a dropdown without options under the identifier of the radio
\* group; a radio group without identifier.
ChoicePool ==
    {DriftSetting("settings", "f1", "c1", <<>>, <<"M", "o", "d", "e">>, "radio_group",
                  <<Opt(<<"a">>, <<"A">>), Opt(<<"b">>, <<"B">>)>>, <<>>),
     DriftSetting("settings", "f1", "c1", <<>>, <<"M", "o", "d", "e">>, "radio_group",
                  <<Opt(<<"b">>, <<"B">>), Opt(<<"a">>, <<"A">>)>>, <<>>),
     DriftSetting("settings", "f2", "c1", <<>>, <<"M", "o", "d", "e">>, "radio_group",
                  <<Opt(<<"b">>, <<"B">>), Opt(<<"a">>, <<"A">>), Opt(<<"A">>, <<>>)>>, <<>>),
     DriftSetting("settings", "f1", "c1", <<>>, <<"Z", "o", "n", "e">>, "dropdown_native",
                  <<>>, <<>>),
     DriftSetting("settings", "", "c1", <<>>, <<"M", "o", "d", "e">>, "radio_group",
                  <<Opt(<<"a">>, <<"A">>)>>, <<>>)}

\* Settings with a timestamp label ("Update" holds "date"): one field under two
\* identifiers, and under the first identifier with another type.
StampLabelPool ==
    {DriftSetting("settings", "f3", "c2", <<>>, <<"U", "p", "d", "a", "t", "e">>, "textbox",
                  <<>>, <<"1", "/", "2">>),
     DriftSetting("settings", "f4", "c2", <<>>, <<"U", "p", "d", "a", "t", "e">>, "textbox",
                  <<>>, <<"1", "/", "2">>),
     DriftSetting("settings", "f3", "c2", <<>>, <<"U", "p", "d", "a", "t", "e">>, "spinbutton",
                  <<>>, <<"1", "/", "2">>)}

\* Field records of one signature: two identifiers with a timestamp value, a
\* third with a value that is none.
StampValuePool ==
    {DriftSetting("fieldRecords", "f5", "c1", <<"k", "1">>, <<"P", "o", "r", "t">>,
                  "dropdown_aria", <<Opt(<<"a">>, <<>>)>>, <<"1", ":", "2">>),
     DriftSetting("fieldRecords", "f6", "c1", <<"k", "1">>, <<"P", "o", "r", "t">>,
                  "dropdown_aria", <<>>, <<"1", ":", "2">>),
     DriftSetting("fieldRecords", "f7", "c1", <<"k", "1">>, <<"P", "o", "r", "t">>,
                  "dropdown_aria", <<Opt(<<"a">>, <<>>)>>, <<"8", "0">>)}

SettingPool == ChoicePool \cup StampLabelPool \cup StampValuePool

ListsOver(pool) == UNION {[1..n -> pool] : n \in 0..MaxSettings}

\* the settings of a snapshot are of one family
SettingLists == ListsOver(ChoicePool) \cup ListsOver(StampLabelPool) \cup ListsOver(StampValuePool)

ContainerLists == {<<[containerKey |-> "c1"]>>, <<[containerKey |-> "c2"], [containerKey |-> "c1"]>>}

\* compare_schemas reads the containers and the settings of a snapshot apart from
\* each other: the container lists vary over the snapshots of at most one
\* setting, the longer setting lists come with the first container list
Snapshots ==
    {[containers |-> c, settings |-> s] :
        c \in ContainerLists, s \in {l \in SettingLists : Len(l) <= 1}}
    \cup {[containers |-> <<[containerKey |-> "c1"]>>, settings |-> s] : s \in SettingLists}

NoDiff == [done |-> FALSE, drift |-> FALSE]

InitDiff ==
    /\ snapA \in Snapshots
    /\ snapB \in Snapshots
    /\ diff = NoDiff
    /\ schema = <<>> /\ values = <<>> /\ ui = <<>> /\ pc = "compare" /\ groups = <<>>
    /\ gi = 0 /\ si = 0 /\ scope = "page" /\ changed_count = 0 /\ outcomes = <<>>
    /\ saved_containers = <<>> /\ log = <<>> /\ faults = 0 /\ report = NoReport
    /\ exitCode = -1 /\ run = 1 /\ prev = NoReport
    /\ rin = <<>> /\ rout = NotResolved

\* lines 291-292 of stability_check.main: diff = compare_schemas(first, second),
\* drift = has_drift(diff); back is the comparison of the same snapshots taken
\* in the other order
Compare ==
    /\ pc = "compare"
    /\ ~diff.done
    /\ diff' = [done |-> TRUE,
                drift |-> has_drift(compare_schemas(snapA, snapB)),
                d |-> compare_schemas(snapA, snapB),
                back |-> compare_schemas(snapB, snapA)]
    /\ UNCHANGED <<applyVars, rin, rout, snapA, snapB>>

NextDiff == Compare

SpecDiff == InitDiff /\ [][NextDiff]_vars

\* ==================================================================== claims

\* a write to a setting's control: fill, check, uncheck, select, or the click on
\* a radio or on a dropdown option
IsWrite(act) ==
    \/ act.op \in {"fill", "check", "uncheck", "select"}
    \/ act.op = "click" /\ act.what \in {"radio", "option"}

WrittenTo(key) == \E i \in 1..Len(log) : IsWrite(log[i]) /\ log[i].on = key

IsSaveClick(act) == act.op = "click" /\ act.what = "save"

\* the detail code of an Outcome ("" when the Outcome has no detail field)
DetailCode(outcome) == IF "detail" \in DOMAIN outcome THEN outcome.detail.code ELSE ""

TypeOf(outcome) == IF "type" \in DOMAIN outcome THEN outcome.type ELSE ""

SchemaKeys == {schema.settings[i].settingKey : i \in 1..Len(schema.settings)}
ContainerKeys == {schema.containers[i].containerKey : i \in 1..Len(schema.containers)}
KeysIn(container_key) ==
    {schema.settings[i].settingKey :
        i \in {j \in 1..Len(schema.settings) : schema.settings[j].containerKey = container_key}}

\* the container declares a save action whose selector matches something
HasResolvableSave(container_key) ==
    \E i \in 1..Len(containers_by_key(container_key).actions) :
        LET action == containers_by_key(container_key).actions[i]
        IN  /\ action.kind = "save"
            /\ action.selector.kind \in SelectorKinds
            /\ (action.selector.inScope > 0 \/ action.selector.inPage > 0)

NotWritableTypes == {"button_dialog", "text_display", "table"}

\* C1 (as claimed): when the run is executed twice on the same schema, values and
\* UI, with no call timing out, every control taking the writes made to it and no
\* failed Outcome in the first run, the second run reports applied = 0 and every
\* Outcome of the second run is skipped.
C1_SecondRunAllSkipped ==
    (/\ run = 2
     /\ pc = "done"
     /\ faults = 0
     /\ prev.counts.failed = 0
     /\ \A k \in DOMAIN ui.controls : ui.controls[k].accepts)
    => /\ report.counts.applied = 0
       /\ \A i \in 1..Len(report.outcomes) : report.outcomes[i].status = "skipped"

\* C3 (as claimed): no automation failure aborts the run: main never ends by an
\* exception, so the run always reaches the point where the report is written.
C3_NoFailureAbortsRun == pc # "crashed"

\* C4 (as claimed): once the settings of a container are applied and its save was
\* attempted, a setting of type textbox, spinbutton, checkbox, switch or
\* dropdown_native that was written and failed verification has made the
\* container's save action be clicked, when the container has one that resolves.
C4_FailedWriteStillSaves ==
    (pc = "close" /\ faults = 0)
    => \A i \in 1..Len(outcomes) :
          (/\ outcomes[i].containerKey = CurrentGroup.containerKey
           /\ TypeOf(outcomes[i]) \in {"textbox", "spinbutton", "checkbox", "switch", "dropdown_native"}
           /\ outcomes[i].status = "failed"
           /\ DetailCode(outcomes[i]) = "verification-failed"
           /\ WrittenTo(outcomes[i].settingKey)
           /\ HasResolvableSave(CurrentGroup.containerKey))
          => /\ CurrentGroup.containerKey \in Range(saved_containers)
             /\ \E j \in 1..Len(log) : IsSaveClick(log[j]) /\ log[j].on = CurrentGroup.containerKey

\* C5: a container's save action is clicked, and the container is listed in
\* savedContainers, only after a write to one of its settings in this run that
\* gave an applied Outcome; a container is listed only when its save action was
\* clicked, and only when it declares a save action that resolves.
C5_NoSpuriousSave ==
    /\ \A i \in 1..Len(log) :
          IsSaveClick(log[i])
          => /\ \E j \in 1..(i - 1) : IsWrite(log[j]) /\ log[j].on \in KeysIn(log[i].on)
             /\ \E j \in 1..Len(outcomes) :
                   outcomes[j].containerKey = log[i].on /\ outcomes[j].status = "applied"
             /\ log[i].on \in Range(saved_containers)
    /\ \A i \in 1..Len(saved_containers) :
          /\ \E j \in 1..Len(log) : IsSaveClick(log[j]) /\ log[j].on = saved_containers[i]
          /\ HasResolvableSave(saved_containers[i])

\* a run that saved one container, and one that left a container with a
\* resolvable save action unsaved because nothing in it changed
C5_Witness ==
    /\ pc = "done"
    /\ Len(saved_containers) = 1
    /\ \E c \in ContainerKeys \ Range(saved_containers) :
          /\ HasResolvableSave(c)
          /\ \E j \in 1..Len(outcomes) : outcomes[j].containerKey = c /\ outcomes[j].status = "skipped"

C7_MissingContainerDetail ==
    pc = "done"
    => \A k \in 1..Len(values) :
          (/\ values[k].key \in SchemaKeys
           /\ settings_by_key(values[k].key).containerKey \notin ContainerKeys)
          => /\ Cardinality({i \in 1..Len(outcomes) : outcomes[i].settingKey = values[k].key}) = 1
             /\ \A i \in 1..Len(outcomes) :
                   outcomes[i].settingKey = values[k].key
                   => /\ outcomes[i].status = "failed"
                      /\ DetailCode(outcomes[i]) = "missing-container"
             /\ \A j \in 1..Len(log) :
                   log[j].on \notin {values[k].key, settings_by_key(values[k].key).containerKey}

\* C8 (as claimed): a run that has ended signals failure (non-zero exit) if and
\* only if at least one Outcome in its report has status failed.
C8_ExitIffFailedOutcome ==
    pc \in {"done", "crashed"}
    => (exitCode # 0 <=> \E i \in 1..Len(report.outcomes) : report.outcomes[i].status = "failed")

\* C9: a desired-value key that matches no setting of the schema gives no Outcome,
\* is counted nowhere in the report and causes no UI action: Outcomes and UI
\* actions are all for settings and containers of the schema, and the report counts
\* exactly the desired values whose key the schema has.
C9_UnknownKeysDropped ==
    /\ \A i \in 1..Len(outcomes) : outcomes[i].settingKey \in SchemaKeys
    /\ \A j \in 1..Len(log) :
          log[j].on \in SchemaKeys \cup {settings_by_key(k).containerKey : k \in SchemaKeys}
    /\ pc = "done"
       => LET matched == Cardinality({k \in 1..Len(values) : values[k].key \in SchemaKeys})
          IN  /\ report.counts.total = matched
              /\ report.counts.applied + report.counts.skipped + report.counts.failed = matched

\* a finished run whose desired values named an unknown key and a known one
C9_Witness ==
    /\ pc = "done"
    /\ \E k \in 1..Len(values) : values[k].key \notin SchemaKeys
    /\ report.counts.total > 0
    /\ log # <<>>

\* C2: resolve_field_locator returns the first candidate, in the order primary,
\* fallbacks[0], fallbacks[1], ..., that is a supported selector whose count does
\* not raise and is exactly 1, with provenance "primary" or "fallback[i]", i its
\* index in fallbacks; with no such candidate it returns no locator and "none".
C2_UniquenessFirst ==
    rout.done
    => LET candidates == <<rin.setting.primary>> \o rin.setting.fallbacks
           usable == {i \in 1..Len(candidates) :
                         /\ candidates[i].kind \in {"css", "label", "role"}
                         /\ i \notin rin.thrown
                         /\ candidates[i].inScope = 1}
           first == CHOOSE i \in usable : \A j \in usable : i <= j
       IN  IF usable = {}
           THEN ~rout.found /\ rout.summary.code = "none"
           ELSE /\ rout.found
                /\ rout.index = first
                /\ first = 1 => rout.summary.code = "primary"
                /\ first > 1 => rout.summary.code = "fallback" /\ rout.summary.idx = first - 2

\* the primary matches 2 elements, fallbacks[0] matches 1: "fallback[0]"
C2_Witness ==
    /\ rout.done
    /\ rin.thrown = {}
    /\ rin.setting.primary.kind = "css" /\ rin.setting.primary.inScope = 2
    /\ Len(rin.setting.fallbacks) >= 1
    /\ rin.setting.fallbacks[1].kind = "css" /\ rin.setting.fallbacks[1].inScope = 1
    /\ rout.summary.code = "fallback" /\ rout.summary.idx = 0

\* C10 (as claimed): comparing a snapshot with itself gives a diff whose every
\* collection is empty, and no drift.
C10_SelfDiffEmpty ==
    (diff.done /\ snapA = snapB)
    => /\ diff.d.containers.added = {} /\ diff.d.containers.removed = {}
       /\ diff.d.settings.added = {} /\ diff.d.settings.removed = {}
       /\ diff.d.settings.labelOrTypeChanged = {}
       /\ diff.d.fieldIdDrift = {}
       /\ diff.d.dropdownsMissingOptionsA = <<>>
       /\ diff.d.dropdownsMissingOptionsB = <<>>
       /\ diff.d.radioOrderingChangedWithoutLabelChange = {}
       /\ ~diff.drift

\* the dropdown settings of a snapshot whose options are empty
EmptyDropdowns(snapshot) ==
    {i \in 1..Len(snapshot.settings) :
        /\ snapshot.settings[i].type \in {"dropdown_native", "dropdown_aria"}
        /\ snapshot.settings[i].options = <<>>}

\* C10 (amended): comparing a snapshot with itself gives a diff whose containers
\* added/removed, settings added/removed/labelOrTypeChanged, fieldIdDrift and
\* radioOrderingChangedWithoutLabelChange are empty; dropdownsMissingOptionsA and
\* dropdownsMissingOptionsB are equal and hold one entry per dropdown of the
\* snapshot whose options are empty; has_drift is true exactly when there is one.
C10_SelfDiffOnlyEmptyDropdowns ==
    (diff.done /\ snapA = snapB)
    => /\ diff.d.containers.added = {} /\ diff.d.containers.removed = {}
       /\ diff.d.settings.added = {} /\ diff.d.settings.removed = {}
       /\ diff.d.settings.labelOrTypeChanged = {}
       /\ diff.d.fieldIdDrift = {}
       /\ diff.d.radioOrderingChangedWithoutLabelChange = {}
       /\ diff.d.dropdownsMissingOptionsA = diff.d.dropdownsMissingOptionsB
       /\ Len(diff.d.dropdownsMissingOptionsA) = Cardinality(EmptyDropdowns(snapA))
       /\ diff.drift <=> EmptyDropdowns(snapA) # {}

\* a snapshot holding a radio group twice under one signature, and a dropdown
\* without options, compared with itself
C10_Witness ==
    /\ diff.done
    /\ snapA = snapB
    /\ Len(snapA.settings) = 2
    /\ snapA.settings[1].type = "radio_group"
    /\ EmptyDropdowns(snapA) # {}
    /\ diff.drift

\* a setting the drift detector is to treat as timestamp-valued: its label holds
\* "time" or "date" in any case, or its current value holds a digit and one of
\* the separators "/" and ":"
StampLike(setting) ==
    \/ Contains(Lower(setting.label), <<"t", "i", "m", "e">>)
    \/ Contains(Lower(setting.label), <<"d", "a", "t", "e">>)
    \/ /\ \E i \in 1..Len(setting.currentValue) : setting.currentValue[i] \in {"/", ":"}
       /\ \E i \in 1..Len(setting.currentValue) :
             setting.currentValue[i] \in {"0", "1", "2", "3", "4", "5", "6", "7", "8", "9"}

\* the settings of a snapshot that carry a signature
Carriers(snapshot, signature) ==
    {i \in 1..Len(snapshot.settings) : setting_signature(snapshot.settings[i]) = signature}

\* C11: a timestamp-valued setting never appears in fieldIdDrift: the two
\* identifiers of every fieldIdDrift entry are those of settings of that
\* signature that are not timestamp-valued, one in each snapshot, so a signature
\* carried in a snapshot by timestamp-valued settings only has no entry, whatever
\* their identifiers.
C11_TimestampNotInFieldIdDrift ==
    diff.done
    => \A e \in diff.d.fieldIdDrift :
          /\ \E i \in Carriers(snapA, e.signature) :
                ~StampLike(snapA.settings[i]) /\ snapA.settings[i].id = e.firstFieldId
          /\ \E j \in Carriers(snapB, e.signature) :
                ~StampLike(snapB.settings[j]) /\ snapB.settings[j].id = e.secondFieldId

\* a field that is timestamp-valued by its value alone keeps its signature and
\* changes its identifier between the snapshots, and no fieldIdDrift is recorded
C11_Witness ==
    /\ diff.done
    /\ Len(snapA.settings) = 1 /\ Len(snapB.settings) = 1
    /\ setting_signature(snapA.settings[1]) = setting_signature(snapB.settings[1])
    /\ snapA.settings[1].id # snapB.settings[1].id
    /\ snapA.settings[1].id # "" /\ snapB.settings[1].id # ""
    /\ StampLike(snapA.settings[1]) /\ StampLike(snapB.settings[1])
    /\ ~Contains(Lower(snapA.settings[1].label), <<"d", "a", "t", "e">>)
    /\ diff.d.fieldIdDrift = {}

\* the identifiers of a snapshot's settings
IdsOf(snapshot) == {snapshot.settings[i].id : i \in 1..Len(snapshot.settings)} \ {""}

\* the setting of a snapshot that an identifier stands for: the last carrying it
LastWithId(snapshot, id) ==
    snapshot.settings[CHOOSE i \in 1..Len(snapshot.settings) :
                          /\ snapshot.settings[i].id = id
                          /\ \A j \in (i + 1)..Len(snapshot.settings) : snapshot.settings[j].id # id]

\* C12: for every identifier present in both snapshots, labelOrTypeChanged holds
\* an entry for it if and only if its label or its type differs between the
\* snapshots, timestamp-valued or not; the entry gives both label/type pairs, and
\* there is no entry for any other key.
C12_LabelOrTypeChangedIff ==
    diff.done
    => /\ \A k \in IdsOf(snapA) \cap IdsOf(snapB) :
             LET a == LastWithId(snapA, k)
                 b == LastWithId(snapB, k)
                 entries == {e \in diff.d.settings.labelOrTypeChanged : e.settingKey = k}
             IN  /\ (a.label # b.label \/ a.type # b.type) <=> entries # {}
                 /\ \A e \in entries :
                       /\ e.first = [label |-> a.label, type |-> a.type]
                       /\ e.second = [label |-> b.label, type |-> b.type]
       /\ \A e \in diff.d.settings.labelOrTypeChanged :
             e.settingKey \in IdsOf(snapA) \cap IdsOf(snapB)

\* a timestamp-valued field keeps its identifier and label and changes its type
C12_Witness ==
    /\ diff.done
    /\ Len(snapA.settings) = 1 /\ Len(snapB.settings) = 1
    /\ snapA.settings[1].id = snapB.settings[1].id
    /\ StampLike(snapA.settings[1]) /\ StampLike(snapB.settings[1])
    /\ snapA.settings[1].label = snapB.settings[1].label
    /\ snapA.settings[1].type # snapB.settings[1].type
    /\ Cardinality(diff.d.settings.labelOrTypeChanged) = 1
    /\ diff.d.fieldIdDrift = {}

\* the signatures of the radio groups of a snapshot
RadioSignatures(snapshot) ==
    {setting_signature(snapshot.settings[i]) :
        i \in {j \in 1..Len(snapshot.settings) : snapshot.settings[j].type = "radio_group"}}

\* the option labels of the radio group a signature stands for in a snapshot (the
\* last one carrying it); an option without label goes by its value
RadioLabels(snapshot, signature) ==
    LET last == CHOOSE i \in Carriers(snapshot, signature) :
                    /\ snapshot.settings[i].type = "radio_group"
                    /\ \A j \in Carriers(snapshot, signature) :
                          snapshot.settings[j].type = "radio_group" => j <= i
        options == snapshot.settings[last].options
    IN  [i \in 1..Len(options) |->
            IF options[i].label # <<>> THEN options[i].label ELSE options[i].value]

HasRadioEntry(signature) ==
    \E e \in diff.d.radioOrderingChangedWithoutLabelChange : e.signature = signature

\* one sequence is the other in another order
Reordered(first, second) ==
    /\ first # second
    /\ Len(first) = Len(second)
    /\ \E f \in [1..Len(first) -> 1..Len(first)] :
          /\ \A i, j \in 1..Len(first) : f[i] = f[j] => i = j
          /\ \A i \in 1..Len(first) : second[f[i]] = first[i]

\* the snapshots hold the same settings but for the order of their options
OnlyOptionOrderDiffers ==
    /\ snapA.containers = snapB.containers
    /\ Len(snapA.settings) = Len(snapB.settings)
    /\ \A i \in 1..Len(snapA.settings) :
          /\ [snapA.settings[i] EXCEPT !.options = <<>>] = [snapB.settings[i] EXCEPT !.options = <<>>]
          /\ \/ snapA.settings[i].options = snapB.settings[i].options
             \/ Reordered(snapA.settings[i].options, snapB.settings[i].options)

\* C13 (as claimed): for every radio_group signature present in both snapshots,
\* radioOrderingChangedWithoutLabelChange holds an entry for it if and only if
\* the two option-label sequences differ and contain the same set of labels; an
\* ordering-only difference adds nothing to labelOrTypeChanged.
C13_RadioEntryIffSameSet ==
    diff.done
    => /\ \A sg \in RadioSignatures(snapA) \cap RadioSignatures(snapB) :
             HasRadioEntry(sg)
             <=> /\ RadioLabels(snapA, sg) # RadioLabels(snapB, sg)
                 /\ Range(RadioLabels(snapA, sg)) = Range(RadioLabels(snapB, sg))
       /\ OnlyOptionOrderDiffers => diff.d.settings.labelOrTypeChanged = {}

\* C13 (amended): for every radio_group signature present in both snapshots,
\* radioOrderingChangedWithoutLabelChange holds an entry for it if and only if
\* the two option-label sequences differ and one is a reordering of the other
\* (the same labels, each as many times); sequences over the same set of labels
\* that repeat a label differently give no entry. The entry gives both orders,
\* there is no entry for any other signature, and an ordering-only difference
\* adds nothing to labelOrTypeChanged.
C13_RadioEntryIffReordered ==
    diff.done
    => /\ \A sg \in RadioSignatures(snapA) \cap RadioSignatures(snapB) :
             /\ HasRadioEntry(sg) <=> Reordered(RadioLabels(snapA, sg), RadioLabels(snapB, sg))
             /\ \A e \in diff.d.radioOrderingChangedWithoutLabelChange :
                   e.signature = sg
                   => /\ e.firstOrder = RadioLabels(snapA, sg)
                      /\ e.secondOrder = RadioLabels(snapB, sg)
       /\ \A e \in diff.d.radioOrderingChangedWithoutLabelChange :
             e.signature \in RadioSignatures(snapA) \cap RadioSignatures(snapB)
       /\ OnlyOptionOrderDiffers => diff.d.settings.labelOrTypeChanged = {}

\* the snapshots differ only in the radio group's options, A,B against B,A: one
\* entry, and labelOrTypeChanged stays empty
C13_Witness ==
    /\ diff.done
    /\ Len(snapA.settings) = 1
    /\ snapA.settings[1].type = "radio_group"
    /\ OnlyOptionOrderDiffers
    /\ snapA.settings[1].options # snapB.settings[1].options
    /\ Cardinality(diff.d.radioOrderingChangedWithoutLabelChange) = 1
    /\ diff.d.settings.labelOrTypeChanged = {}

\* C14: for any two snapshots A and B, containers.added of compare(A, B) equals
\* containers.removed of compare(B, A), and settings.added of compare(A, B)
\* equals settings.removed of compare(B, A).
C14_AddedIsRemovedBackwards ==
    diff.done
    => /\ diff.d.containers.added = diff.back.containers.removed
       /\ diff.d.settings.added = diff.back.settings.removed

\* snapshots that share a container and differ in another, and whose settings
\* have different identifiers
C14_Witness ==
    /\ diff.done
    /\ diff.d.containers.added # {}
    /\ \E i \in 1..Len(snapA.containers), j \in 1..Len(snapB.containers) :
          snapA.containers[i].containerKey = snapB.containers[j].containerKey
    /\ diff.d.settings.added # {}
    /\ diff.d.settings.removed # {}
    /\ diff.back.settings.removed = diff.d.settings.added

\* a list of missing-options entries is that of a snapshot: one entry for each
\* dropdown of the snapshot whose options are empty, in the order of the
\* settings, and nothing else
MissingListOf(list, snapshot) ==
    /\ Len(list) = Cardinality(EmptyDropdowns(snapshot))
    /\ \A k \in 1..Len(list) :
          \E i \in EmptyDropdowns(snapshot) :
              /\ Cardinality({j \in EmptyDropdowns(snapshot) : j < i}) = k - 1
              /\ list[k] = [fieldId |-> snapshot.settings[i].id,
                            label |-> snapshot.settings[i].label,
                            reason |-> "dropdown has empty options[]"]

\* C15: dropdownsMissingOptionsA lists exactly the dropdown_native and
\* dropdown_aria settings of snapshot A whose options are empty, and
\* dropdownsMissingOptionsB exactly those of snapshot B: a dropdown that is empty
\* in B only is in B's list and not in A's, and settings of other types are in
\* neither.
C15_MissingOptionsPerSnapshot ==
    diff.done
    => /\ MissingListOf(diff.d.dropdownsMissingOptionsA, snapA)
       /\ MissingListOf(diff.d.dropdownsMissingOptionsB, snapB)

\* snapshot A holds a dropdown with options, snapshot B a dropdown_aria without
C15_Witness ==
    /\ diff.done
    /\ diff.d.dropdownsMissingOptionsA = <<>>
    /\ Len(snapA.settings) = 1
    /\ snapA.settings[1].type = "dropdown_aria"
    /\ Len(diff.d.dropdownsMissingOptionsB) = 1
    /\ \E i \in 1..Len(snapB.settings) :
          snapB.settings[i].type = "dropdown_aria" /\ snapB.settings[i].options = <<>>
    /\ diff.drift

\* the steps of a navPath that are to act on the page: the goto steps with a
\* url, and the click steps not tagged modal_close whose selector matches
NavSteps(nav_path) ==
    {i \in 1..Len(nav_path) :
        \/ nav_path[i].action = "goto" /\ nav_path[i].url # ""
        \/ /\ nav_path[i].action = "click"
           /\ nav_path[i].kind # "modal_close"
           /\ nav_path[i].selector.kind \in SelectorKinds
           /\ LocatorCount("page", nav_path[i].selector) > 0}

\* C16 (as claimed): open_container executes the steps of navPath in their listed
\* order: when the first container of a run has been opened with no call timing
\* out, the UI actions performed are, one for one and in the order of the path,
\* its goto steps and its click steps not tagged modal_close; a click listed
\* before a goto comes before that navigation, and every goto is performed.
C16_NavPathInOrder ==
    (run = 1 /\ gi = 1 /\ pc = "apply" /\ si = 1 /\ faults = 0)
    => LET nav_path == CurrentContainer.navPath
       IN  /\ Len(log) = Cardinality(NavSteps(nav_path))
           /\ \A k \in 1..Len(log) :
                 \E i \in NavSteps(nav_path) :
                     /\ Cardinality({j \in NavSteps(nav_path) : j < i}) = k - 1
                     /\ IF nav_path[i].action = "goto"
                        THEN log[k].op = "goto" /\ log[k].what = nav_path[i].url
                        ELSE log[k].op = "click" /\ log[k].what = "nav" /\ log[k].n = i

\* the options of the setting whose value, or whose label, is the desired text
MatchingBy(field) ==
    {i \in 1..Len(rin.setting.options) :
        normalize_str(PyStr(rin.setting.options[i][field])) = normalize_str(rin.desired)}

\* C17 (as claimed): resolve_option_label returns the label of an option whose
\* value equals the normalized desired value whenever there is one anywhere in
\* the options (the desired text when that option has no label); only when no
\* option matches by value the label of an option whose label equals the desired
\* value; otherwise the normalized desired text.
C17_ValueMatchBeforeLabelMatch ==
    rout.done
    => IF MatchingBy("value") # {}
       THEN \E i \in MatchingBy("value") :
               LET label == normalize_str(PyStr(rin.setting.options[i].label))
               IN  rout.label = IF label # <<>> THEN label ELSE normalize_str(rin.desired)
       ELSE rout.label = normalize_str(rin.desired)

\* one step of the container workflow: a known container that is next is opened
\* and its first setting comes up; the settings of the open container are
\* applied one by one, each giving its Outcome, and the save attempt follows the
\* last; the close follows the save attempt; the next container comes up only
\* after the close; no container comes up twice
WorkflowStep ==
    /\ (pc = "loop" /\ gi <= Len(groups) /\ CurrentGroup.containerKey \in ContainerKeys)
       => pc' = "apply" /\ gi' = gi /\ si' = 1
    /\ pc = "apply"
       => /\ gi' = gi
          /\ outcomes' = Append(outcomes, outcomes'[Len(outcomes')])
          /\ outcomes'[Len(outcomes')].settingKey = CurrentGroup.keys[si]
          /\ IF si < Len(CurrentGroup.keys) THEN pc' = "apply" /\ si' = si + 1 ELSE pc' = "save"
    /\ pc = "save" => pc' = "close" /\ gi' = gi /\ outcomes' = outcomes
    /\ pc = "close" => pc' = "loop" /\ gi' = gi + 1
    /\ (pc' = "apply" /\ pc # "apply") => pc = "loop"
    /\ gi' # gi => (pc \in {"start", "close", "done"} \/ (pc = "loop" /\ pc' = "loop"))
    /\ \A i, j \in 1..Len(groups) : groups[i].containerKey = groups[j].containerKey => i = j

\* C18 (as claimed): for every container of the schema with a desired setting the
\* run performs open, then applies the container's settings one by one, then the
\* save attempt, then close, in that order; one container is finished, close
\* included, before the next is opened, and each is opened exactly once.
C18_SequentialWorkflow == [][WorkflowStep]_vars

\* the identifier a signature maps to when the first of the settings that carry
\* it, have an identifier and are not timestamp-valued is the one that counts
\* ("" when there is none)
FirstIdOf(snapshot, signature) ==
    LET eligible == {i \in Carriers(snapshot, signature) :
                        snapshot.settings[i].id # "" /\ ~StampLike(snapshot.settings[i])}
    IN  IF eligible = {} THEN ""
        ELSE snapshot.settings[CHOOSE i \in eligible : \A j \in eligible : i <= j].id

\* C19 (as claimed): when several non-timestamp settings of a snapshot share a
\* signature, the signature maps to the identifier of the first of them: a
\* signature has a fieldIdDrift entry if and only if its first identifiers in the
\* two snapshots differ, and the entry names those two.
C19_FirstIdentifierWins ==
    diff.done
    => \A sg \in {setting_signature(s) : s \in SettingPool} :
          LET a == FirstIdOf(snapA, sg)
              b == FirstIdOf(snapB, sg)
          IN  (a # "" /\ b # "")
              => /\ (a # b) <=> \E e \in diff.d.fieldIdDrift : e.signature = sg
                 /\ \A e \in diff.d.fieldIdDrift :
                       e.signature = sg => e.firstFieldId = a /\ e.secondFieldId = b

\* the ten types the engine has a strategy for
KnownTypes ==
    {"textbox", "spinbutton", "checkbox", "switch", "radio_group", "dropdown_native",
     "dropdown_aria", "button_dialog", "text_display", "table"}

\* the Outcomes of settings whose type is none of the ten
UnknownTypeOutcomes == {i \in 1..Len(outcomes) : TypeOf(outcomes[i]) \notin KnownTypes \cup {""}}

\* one of the setting's selectors is supported and matches exactly one element
\* of the scope
ResolvesIn(root, setting) ==
    \E i \in 1..Len(<<setting.primary>> \o setting.fallbacks) :
        LET candidate == (<<setting.primary>> \o setting.fallbacks)[i]
        IN  candidate.kind \in {"css", "label", "role"} /\ LocatorCount(root, candidate) = 1

\* C20 (as claimed): the Outcome of a setting whose type is none of the ten known
\* types is failed with detail unsupported-type:<type>, whether or not the
\* setting's selectors resolve, and no UI action is performed on the setting.
C20_UnsupportedTypeAlways ==
    \A i \in UnknownTypeOutcomes :
        /\ outcomes[i].status = "failed"
        /\ outcomes[i].detail.code = "unsupported-type"
        /\ outcomes[i].detail.text = <<outcomes[i].type>>
        /\ \A j \in 1..Len(log) : log[j].on # outcomes[i].settingKey

\* C20 (amended): the Outcome of a setting of a known container whose type is
\* none of the ten known types is failed, and no UI action is performed on the
\* setting; its detail is unsupported-type:<type> when one of the setting's
\* selectors resolves to exactly one element, and no-unique-selector when none
\* does: the locator is resolved before the type is looked at.
C20_UnsupportedTypeAfterLocator ==
    /\ \A i \in UnknownTypeOutcomes :
          /\ outcomes[i].status = "failed"
          /\ \/ /\ outcomes[i].detail.code = "unsupported-type"
                /\ outcomes[i].detail.text = <<outcomes[i].type>>
             \/ outcomes[i].detail.code = "no-unique-selector"
          /\ \A j \in 1..Len(log) : log[j].on # outcomes[i].settingKey
    /\ (/\ faults = 0
        /\ pc = "save" \/ (pc = "apply" /\ si > 1)
        /\ Len(outcomes) \in UnknownTypeOutcomes)
       => LET last == outcomes[Len(outcomes)]
          IN  last.detail.code = "unsupported-type"
              <=> ResolvesIn(scope, settings_by_key(last.settingKey))

\* a setting of type slider whose selector resolves was handed to apply_setting
C20_Witness ==
    /\ pc = "save"
    /\ faults = 0
    /\ Len(outcomes) \in UnknownTypeOutcomes
    /\ outcomes[Len(outcomes)].detail.code = "unsupported-type"
    /\ outcomes[Len(outcomes)].detail.text = <<"slider">>

\* the UI actions of the step being taken
NewActs == {log'[j] : j \in (Len(log) + 1)..Len(log')}

\* one application of a setting: a skipped Outcome comes with no fill, check,
\* uncheck, select or click on the setting and leaves the UI as it was; an
\* applied Outcome comes with a write on the setting
SkippedWritesNothing ==
    pc = "apply"
    => LET outcome == outcomes'[Len(outcomes')]
       IN  /\ outcome.status = "skipped"
              => /\ \A act \in NewActs :
                       ~(act.on = outcome.settingKey
                         /\ act.op \in {"fill", "check", "uncheck", "click", "select"})
                 /\ ui' = ui
           /\ outcome.status = "applied"
              => \E act \in NewActs : IsWrite(act) /\ act.on = outcome.settingKey

\* C21: whenever a setting's Outcome is skipped the engine performed no fill,
\* check, uncheck, click or select on that setting during that application and
\* the UI is left unchanged; every applied Outcome had a write performed.
C21_SkippedMeansNoWrite == [][SkippedWritesNothing]_vars

\* a finished run in which one setting already held the desired value (skipped,
\* never written) and another was written and applied
C21_Witness ==
    /\ pc = "done"
    /\ \E i \in 1..Len(outcomes) :
          /\ outcomes[i].status = "skipped"
          /\ TypeOf(outcomes[i]) \in {"textbox", "spinbutton", "checkbox", "switch",
                                       "radio_group", "dropdown_native"}
          /\ ~WrittenTo(outcomes[i].settingKey)
    /\ \E i \in 1..Len(outcomes) :
          outcomes[i].status = "applied" /\ WrittenTo(outcomes[i].settingKey)

\* the cancel and close actions of the open container whose selector is
\* supported and matches in the scope or else on the page
Closable ==
    {i \in 1..Len(CurrentContainer.actions) :
        LET action == CurrentContainer.actions[i]
        IN  /\ action.kind \in {"cancel", "close"}
            /\ action.selector.kind \in {"css", "label", "role"}
            /\ (LocatorCount(scope, action.selector) > 0
                \/ LocatorCount("page", action.selector) > 0)}

\* one close: it never raises; a page container sees no UI action; a modal
\* container sees at most one, the click on a closable action (the first of
\* them when no call times out) or else the Escape key, pressed only when no
\* cancel or close action could be clicked
CloseStep ==
    pc = "close"
    => /\ pc' = "loop"
       /\ CurrentContainer.type # "modal" => log' = log
       /\ CurrentContainer.type = "modal"
          => /\ Len(log') <= Len(log) + 1
             /\ \A act \in NewActs :
                   \/ /\ act.op = "click" /\ act.what = "close"
                      /\ act.n \in Closable
                      /\ faults' = faults => \A i \in Closable : act.n <= i
                   \/ /\ act.op = "press" /\ act.what = "Escape"
                      /\ Closable = {} \/ faults' # faults
             /\ faults' = faults => NewActs # {}

\* C22: close_modal acts only on modal containers and never raises: a page
\* container gets no UI action; a modal container gets at most one click, on the
\* first cancel/close action whose selector resolves in the scope or else at page
\* level, and Escape only when no cancel/close action could be clicked; a failing
\* click or key press is swallowed.
C22_CloseOnlyModalNeverRaises == [][CloseStep]_vars

\* a modal container was closed by the click on its fourth action: the cancel
\* action before it has an unsupported selector, the others are save actions
C22_Witness ==
    /\ pc = "loop"
    /\ faults = 0
    /\ log # <<>>
    /\ log[Len(log)].op = "click" /\ log[Len(log)].what = "close"
    /\ log[Len(log)].n = 4
    /\ containers_by_key(log[Len(log)].on).type = "modal"

GroupTypes == {"radio_group", "dropdown_aria"}

\* the step clicked the radio or the option of the setting
OptionClicked(key) ==
    \E act \in NewActs : act.on = key /\ act.op = "click" /\ act.what \in {"radio", "option"}

\* one application to a group control: never verification-failed, and applied
\* once the option was clicked
TrustedStep ==
    pc = "apply" /\ settings_by_key(CurrentGroup.keys[si]).type \in GroupTypes
    => LET outcome == outcomes'[Len(outcomes')]
       IN  /\ DetailCode(outcome) # "verification-failed"
           /\ OptionClicked(outcome.settingKey) => outcome.status = "applied"

\* C23: for a radio_group or dropdown_aria setting, once the option was found and
\* the click completed, the Outcome is applied even when the read after the click
\* does not show the desired value; no verification-failed Outcome is produced
\* for these two types.
C23_GroupControlsTrusted == [][TrustedStep]_vars

\* a dropdown_aria setting was applied in the first run although the control
\* does not show the desired value after the click on its option
C23_Witness ==
    /\ pc = "done" /\ run = 1
    /\ \E i \in 1..Len(outcomes) :
          /\ outcomes[i].status = "applied"
          /\ TypeOf(outcomes[i]) = "dropdown_aria"
          /\ \E j \in 1..Len(log) :
                log[j].on = outcomes[i].settingKey /\ log[j].what = "option"
          /\ ~verify_locator_value(ui.controls[outcomes[i].settingKey],
                                   settings_by_key(outcomes[i].settingKey),
                                   outcomes[i].desired, "none")

\* C24 (as claimed): every write the engine performs for a setting (fill, check,
\* uncheck, select, the click on a radio or on a dropdown option) targets an
\* element that was the unique match of the lookup that found it; when the lookup
\* matches two or more elements nothing is written to any of them.
C24_NoWriteToAmbiguousElement ==
    \A j \in 1..Len(log) : IsWrite(log[j]) => log[j].n = 1

\* the desired-value keys that match a schema setting
MatchedKeys == {values[i].key : i \in 1..Len(values)} \cap SchemaKeys

\* the accounting of one written report
ReportAccounted(r) ==
    /\ Len(r.outcomes) = Cardinality(MatchedKeys)
    /\ \A key \in MatchedKeys :
          Cardinality({i \in 1..Len(r.outcomes) : r.outcomes[i].settingKey = key}) = 1
    /\ r.counts.total = r.counts.applied + r.counts.skipped + r.counts.failed
    /\ r.counts.savedContainers = Len(r.savedContainers)
    /\ \A i, j \in 1..Len(r.savedContainers) :
          r.savedContainers[i] = r.savedContainers[j] => i = j
    /\ \A i \in 1..Len(r.savedContainers) : r.savedContainers[i] \in ContainerKeys

\* C25: in every report written by a completed run, outcomes holds exactly one
\* Outcome per desired-value key that matched a schema setting, counts.total is
\* counts.applied + counts.skipped + counts.failed, counts.savedContainers is the
\* length of savedContainers, and savedContainers lists each container key at
\* most once and only keys of containers of the schema.
C25_ReportAccounting ==
    /\ report.written => ReportAccounted(report)
    /\ prev.written => ReportAccounted(prev)

\* a report over two matched keys of one container, with a desired value whose
\* key the schema does not have, one failed Outcome and the container saved
C25_Witness ==
    /\ pc = "done"
    /\ report.written
    /\ Len(values) = 3
    /\ Len(report.outcomes) = 2
    /\ report.outcomes[1].containerKey = report.outcomes[2].containerKey
    /\ report.counts.failed = 1
    /\ report.savedContainers # <<>>

====
